---------------------------- MODULE Spec2Model ----------------------------
(***************************************************************************)
(* Model of takodotid/azure-rest.                                          *)
(*                                                                         *)
(*  - AzureClient (src/src/AzureClient.ts): the token cache, the bounded   *)
(*    refresh loop of sendRequest and the dispatch to fetch.  Every action *)
(*    is one synchronous segment of the async code, from one await to the  *)
(*    next; several sendRequest calls interleave at those awaits only.     *)
(*  - ChainedCredential (src/unnamed/part_004) and DefaultChainedCredential*)
(*    (src/src/lib/DefaultChainedCredential.ts): the ordered fallback over *)
(*    the four credential strategies.                                      *)
(***************************************************************************)
EXTENDS Integers, Sequences, FiniteSets, TLC

VARIABLES
    token,      \* AzureClient.token : Credential | null
    now,        \* the wall clock read by `new Date()`, in ms
    options,    \* AzureClient.options (baseUrl, credential.builder configured?)
    call,       \* one record per sendRequest call: its position and locals
    chain,      \* the state of the chained resolver's getToken calls
    cred        \* one credential strategy instance and its getToken call

vars == <<token, now, options, call, chain, cred>>

-----------------------------------------------------------------------------
(* Bounds *)

NumCalls == 2       \* sendRequest calls issued on the one AzureClient
MaxTicks == 3       \* clock ticks of TickMs the model lets pass
MaxChainCalls == 2  \* getToken calls made on the chained resolver
MaxStderr == 2      \* pieces of text in a subprocess's stderr
MaxText == 2        \* characters in the expires_on text of the CLI's output

(* Program constants *)

MAX_TOKEN_RETRIES == 3
BackoffMs == 100

\* the clock advances in steps of the backoff unit
TickMs == BackoffMs

-----------------------------------------------------------------------------
(* Values *)

Null == [null |-> TRUE]
\* JavaScript's undefined
Undefined == [undefined |-> TRUE]

Calls == 1..NumCalls

\* The helper's answers.  Every getToken call yields a token of its own:
\* the one handed to call c is named after c.  Its expiry is the clock at
\* the time the helper answers (expired on arrival), one tick later, or a
\* time the model's clock never reaches: the horizon and then, for every
\* call, the backoffs of one loop (100 * 1 + 100 * 2 ms).
FarFuture == (MaxTicks + 1 + NumCalls * MAX_TOKEN_RETRIES) * TickMs

Credential(a, e) == [accessToken |-> a, expiresAt |-> e]

HelperExpiries == {now, now + TickMs, FarFuture}

HelperToken(c, e) == Credential("tok" \o ToString(c), e)

NoHeaders == [k \in {} |-> ""]

\* o.f, undefined when o is undefined or has no own property f
Field(o, f) == IF o # Undefined /\ f \in DOMAIN o THEN o[f] ELSE Undefined

\* the own properties that { ...o } copies: none when o is undefined
Spread(o) == IF o = Undefined THEN [k \in {} |-> ""] ELSE o

\* Merge in which the first object wins a collision
Merge_FirstWins(a, b) ==
    [k \in (DOMAIN a) \cup (DOMAIN b) |-> IF k \in DOMAIN a THEN a[k] ELSE b[k]]

\* object spread { ...a, ...b }
Merge(a, b) ==
    [k \in (DOMAIN a) \cup (DOMAIN b) |-> IF k \in DOMAIN b THEN b[k] ELSE a[k]]

\* The RequestInit values callers pass: one without headers, and one whose
\* headers collide with the default Authorization header.
Inits ==
    { [path |-> "/y", headers |-> NoHeaders],
      [path |-> "/y", headers |-> [Authorization |-> "Basic caller"]] }

BaseUrls == {"https://x"}

RefreshExhaustedMsg == "Failed to refresh token after multiple attempts"
TokenNullMsg == "Token is unexpectedly null after refresh attempts"
HelperErrors == {"helper: cannot get token"}
TransportErrors == {"fetch failed"}
Statuses == {200, 500}

Response(s) == [kind |-> "response", status |-> s]
Failure(m) == [kind |-> "error", message |-> m]

-----------------------------------------------------------------------------
(* AzureClient *)


\* Fresh with a comparison that lets a token through at its expiry instant
Fresh_AtExpiry(t, n) == t # Null /\ t.expiresAt >= n

\* Fresh that lets an absent token through
Fresh_NullPasses(t, n) == t = Null \/ t.expiresAt > n

Fresh(t, n) == t # Null /\ t.expiresAt > n

\* the custom header builder a caller may configure
Builder(t) == [apikey |-> t.accessToken]


\* AuthHeaders without the Bearer scheme in the default header
AuthHeaders_NoScheme(t) ==
    IF options.builder THEN Builder(t)
    ELSE [Authorization |-> t.accessToken]

AuthHeaders(t) ==
    IF options.builder THEN Builder(t)
    ELSE [Authorization |-> "Bearer " \o t.accessToken]

RequestHeaders(t, init) ==
    Merge(AuthHeaders(t), Spread(Field(init, "headers")))

RequestUrl(path) == options.baseUrl \o path

\* How the cache stands to the clock: absent, fresh (it expires strictly
\* after now) or stale.
CacheState == IF token = Null THEN "absent"
              ELSE IF token.expiresAt > now THEN "fresh" ELSE "stale"

\* A call that has not been made yet.  `init` is the argument of the call;
\* `frame` holds the loop's locals while the call is inside the refresh loop
\* (i and the timer of its backoff); `sent` is the request the transport is
\* working on, with the token it was built from and the time it was built
\* at; `fetched` is what the transport answered and `outcome` what
\* sendRequest settled with; `via` is the verb helper the call came through,
\* with the arguments the helper was given.  The other fields record the
\* call's history: how the cache stood on entry and at its latest loop
\* check, the number of loop checks it made, of helper invocations it made
\* and of those that resolved, and of transport invocations it made; the
\* backoff wait the call sat through before each helper invocation; the
\* token its helper handed it last, whether that was the latest token any
\* helper handed to the client, and the error its helper rejected with.
InitCall ==
    [ pc |-> "idle", init |-> Null, frame |-> Null,
      entry |-> "none", seen |-> "none", checks |-> 0,
      getTokenCalls |-> 0, resolved |-> 0, fetchCalls |-> 0,
      sent |-> Null, fetched |-> Null, outcome |-> Null, via |-> Null,
      waits |-> << >>, got |-> Null, latest |-> FALSE, rejection |-> Null ]

\* the loop's locals: i, the time at which the backoff timer fires, and the
\* length of the wait made since the previous helper invocation
Frame == [ i |-> 0, timer |-> 0, wait |-> 0 ]

\* throw out of sendRequest: the returned promise rejects
Thrown(r, m) ==
    [r EXCEPT !.pc = "rejected", !.frame = Null, !.outcome = Failure(m)]

\* past the loop: the null guard, then fetch(url, {...init, headers}) is
\* called with the token the cache holds at this very moment
Dispatched(r) ==
    IF token = Null
    THEN Thrown(r, TokenNullMsg)
    ELSE [r EXCEPT !.pc = "fetching", !.frame = Null,
                   !.fetchCalls = @ + 1,
                   !.sent = [ url |-> RequestUrl(r.init.path),
                              method |-> Field(r.init, "method"),
                              body |-> Field(r.init, "body"),
                              headers |-> RequestHeaders(token, r.init),
                              token |-> token, at |-> now ]]

\* Refreshing that joins a refresh another call already has in flight
\* instead of invoking the helper itself
Refreshing_Coalesced(r, k) ==
    IF \E d \in Calls : call[d].pc = "refreshing"
    THEN [r EXCEPT !.pc = "refreshing", !.frame.i = k,
                   !.waits = Append(@, r.frame.wait)]
    ELSE [r EXCEPT !.pc = "refreshing", !.frame.i = k, !.getTokenCalls = @ + 1,
                   !.waits = Append(@, r.frame.wait)]

\* await this.refreshToken(): helper.getToken(scope) is invoked and the call
\* suspends until it settles
Refreshing(r, k) ==
    [r EXCEPT !.pc = "refreshing", !.frame.i = k, !.getTokenCalls = @ + 1,
              !.waits = Append(@, r.frame.wait)]

\* the history of a call that reaches the loop's check
Checking(r) ==
    [r EXCEPT !.checks = @ + 1, !.seen = CacheState]

\* LoopBody whose attempt ceiling is off by one
LoopBody_OffByOne(r, k) ==
    IF Fresh(token, now) THEN Dispatched(Checking(r))
    ELSE IF k = MAX_TOKEN_RETRIES + 1 THEN Thrown(Checking(r), RefreshExhaustedMsg)
    ELSE Refreshing(Checking(r), k)

\* one iteration of the for loop with i = k, up to its first await
LoopBody(r, k) ==
    IF Fresh(token, now) THEN Dispatched(Checking(r))
    ELSE IF k = MAX_TOKEN_RETRIES THEN Thrown(Checking(r), RefreshExhaustedMsg)
    ELSE Refreshing(Checking(r), k)

\* entry into sendRequest(path, init)
Entered(r, init) ==
    [r EXCEPT !.init = init, !.frame = Frame, !.entry = CacheState]

\* a caller invokes sendRequest(path, init); the calls are numbered in
\* the order in which they are made
SendRequest(c, init) ==
    /\ call[c].pc = "idle"
    /\ \A d \in Calls : d < c => call[d].pc # "idle"
    /\ call' = [call EXCEPT ![c] = LoopBody(Entered(@, init), 0)]
    /\ UNCHANGED <<token, now, options, chain, cred>>

\* RefreshToken that keeps a cached token expiring later than the new one
RefreshToken_KeepLater(c, tk) ==
    /\ call[c].pc = "refreshing"
    /\ token' = IF token # Null /\ token.expiresAt > tk.expiresAt THEN token
                ELSE tk
    /\ call' = [d \in Calls |->
                 IF d = c
                 THEN [call[c] EXCEPT !.pc = "resumed", !.resolved = @ + 1,
                                      !.got = tk, !.latest = TRUE]
                 ELSE [call[d] EXCEPT !.latest = FALSE]]
    /\ UNCHANGED <<now, options, chain, cred>>

\* refreshToken: helper.getToken resolved with tk, which replaces the cache
RefreshToken(c, tk) ==
    /\ call[c].pc = "refreshing"
    /\ token' = tk
    /\ call' = [d \in Calls |->
                 IF d = c
                 THEN [call[c] EXCEPT !.pc = "resumed", !.resolved = @ + 1,
                                      !.got = tk, !.latest = TRUE]
                 ELSE [call[d] EXCEPT !.latest = FALSE]]
    /\ UNCHANGED <<now, options, chain, cred>>

\* RefreshRejected that drops the cached token
RefreshRejected_ClearsCache(c, e) ==
    /\ call[c].pc = "refreshing"
    /\ token' = Null
    /\ call' = [call EXCEPT ![c] = [Thrown(@, e) EXCEPT
                                       !.rejection = Failure(e)]]
    /\ UNCHANGED <<now, options, chain, cred>>

\* RefreshRejected that swallows the error and lets the loop go on
RefreshRejected_Retried(c, e) ==
    /\ call[c].pc = "refreshing"
    /\ call' = [call EXCEPT ![c].pc = "resumed", ![c].rejection = Failure(e)]
    /\ UNCHANGED <<token, now, options, chain, cred>>

\* refreshToken: helper.getToken rejected with e; nothing catches it
RefreshRejected(c, e) ==
    /\ call[c].pc = "refreshing"
    /\ call' = [call EXCEPT ![c] = [Thrown(@, e) EXCEPT
                                       !.rejection = Failure(e)]]
    /\ UNCHANGED <<token, now, options, chain, cred>>

\* Resume that trusts the token it just got and dispatches without checking
Resume_TrustRefresh(c) ==
    /\ call[c].pc = "resumed"
    /\ call' = [call EXCEPT ![c] = Dispatched(call[c])]
    /\ UNCHANGED <<token, now, options, chain, cred>>

\* sendRequest resumes after `await this.refreshToken()`
Resume(c) ==
    /\ call[c].pc = "resumed"
    /\ LET r == call[c]
       IN  call' = [call EXCEPT ![c] =
                      IF r.frame.i > 0
                      THEN [r EXCEPT !.pc = "backoff",
                                     !.frame.timer = now + BackoffMs * r.frame.i,
                                     !.frame.wait = BackoffMs * r.frame.i]
                      ELSE LoopBody(r, r.frame.i + 1)]
    /\ UNCHANGED <<token, now, options, chain, cred>>

\* BackoffElapsed after which the loop repeats the same iteration
BackoffElapsed_SameIteration(c) ==
    /\ call[c].pc = "backoff"
    /\ now >= call[c].frame.timer
    /\ call' = [call EXCEPT ![c] = LoopBody(@, @.frame.i)]
    /\ UNCHANGED <<token, now, options, chain, cred>>

\* the setTimeout(res, 100 * i) of the call fires; the loop goes on
BackoffElapsed(c) ==
    /\ call[c].pc = "backoff"
    /\ now >= call[c].frame.timer
    /\ call' = [call EXCEPT ![c] = LoopBody(@, @.frame.i + 1)]
    /\ UNCHANGED <<token, now, options, chain, cred>>

\* the transport answers with a response of any status; sendRequest
\* resolves with it
FetchResolved(c, s) ==
    /\ call[c].pc = "fetching"
    /\ call' = [call EXCEPT ![c].pc = "done", ![c].sent = Null,
                            ![c].fetched = Response(s),
                            ![c].outcome = Response(s)]
    /\ UNCHANGED <<token, now, options, chain, cred>>

\* FetchRejected that wraps the transport's error in one of its own
FetchRejected_Wrapped(c, e) ==
    /\ call[c].pc = "fetching"
    /\ call' = [call EXCEPT ![c].pc = "rejected", ![c].sent = Null,
                            ![c].fetched = Failure(e),
                            ![c].outcome = Failure("Request failed: " \o e)]
    /\ UNCHANGED <<token, now, options, chain, cred>>

\* the transport raises a network-level error; sendRequest rejects with it
FetchRejected(c, e) ==
    /\ call[c].pc = "fetching"
    /\ call' = [call EXCEPT ![c].pc = "rejected", ![c].sent = Null,
                            ![c].fetched = Failure(e),
                            ![c].outcome = Failure(e)]
    /\ UNCHANGED <<token, now, options, chain, cred>>

-----------------------------------------------------------------------------
(* The verb helpers of AzureClient *)

\* base URLs with and without a trailing slash, paths with and without a
\* leading one
VerbBaseUrls == {"https://x", "https://x/"}
Paths == {"/y", "y"}

\* header maps a caller supplies: none, colliding with the default header,
\* with the builder's header or with the JSON content type, and colliding
\* with nothing
CallerHeaders ==
    { NoHeaders,
      [Authorization |-> "Basic caller"],
      [apikey |-> "caller"],
      [k \in {"Content-Type"} |-> "text/plain"],
      [k \in {"X-Trace"} |-> "1"] }

\* a request body that is a string
Text(t) == [text |-> t]

\* the init argument of a verb helper: left out, with headers, or with
\* a method and a body of the caller's own
CallerInits ==
    {Undefined} \cup {[headers |-> h] : h \in CallerHeaders}
      \cup {[method |-> "TRACE", body |-> Text("raw")]}

\* values passed as the body argument: undefined, {a:1}, "s", null,
\* {a:{b:"s"},c:[1,null]}
Bodies ==
    { Undefined,
      [obj |-> << <<"a", [num |-> 1]>> >>],
      [str |-> "s"],
      Null,
      [obj |-> << <<"a", [obj |-> << <<"b", [str |-> "s"]>> >>]>>,
                  <<"c", [arr |-> << [num |-> 1], Null >>]>> >>] }

RECURSIVE JSONStringify(_)
RECURSIVE JSONMembers(_)
RECURSIVE JSONElements(_)

\* "k":v of each property of an object, comma separated
JSONMembers(ms) ==
    IF ms = << >> THEN ""
    ELSE "\"" \o ms[1][1] \o "\":" \o JSONStringify(ms[1][2])
         \o (IF Len(ms) > 1 THEN "," \o JSONMembers(Tail(ms)) ELSE "")

\* the elements of an array, comma separated
JSONElements(es) ==
    IF es = << >> THEN ""
    ELSE JSONStringify(es[1])
         \o (IF Len(es) > 1 THEN "," \o JSONElements(Tail(es)) ELSE "")

\* JSON.stringify(v) for numbers, strings without characters to escape,
\* null, arrays and plain objects
JSONStringify(v) ==
    IF v = Null THEN "null"
    ELSE IF "num" \in DOMAIN v THEN ToString(v.num)
    ELSE IF "str" \in DOMAIN v THEN "\"" \o v.str \o "\""
    ELSE IF "arr" \in DOMAIN v THEN "[" \o JSONElements(v.arr) \o "]"
    ELSE "{" \o JSONMembers(v.obj) \o "}"

\* JsonRequest in which the default content type overrides the caller's
JsonRequest_DefaultWins(method, body, init) ==
    Merge(Spread(init),
          [ method |-> method,
            headers |-> Merge(Spread(Field(init, "headers")),
                              [k \in {"Content-Type"} |-> "application/json"]),
            body |-> IF body # Undefined THEN Text(JSONStringify(body))
                     ELSE Undefined ])

\* the init that post, put and patch pass on to sendRequest
JsonRequest(method, body, init) ==
    Merge(Spread(init),
          [ method |-> method,
            headers |-> Merge([k \in {"Content-Type"} |-> "application/json"],
                              Spread(Field(init, "headers"))),
            body |-> IF body # Undefined THEN Text(JSONStringify(body))
                     ELSE Undefined ])

\* a verb helper called with (path, body, init) calls
\* sendRequest(path, sendInit)
Helper(c, name, path, body, init, sendInit) ==
    /\ call[c].pc = "idle"
    /\ \A d \in Calls : d < c => call[d].pc # "idle"
    /\ call' = [call EXCEPT ![c] =
                  LoopBody(Entered([@ EXCEPT !.via = [ verb |-> name,
                                                       path |-> path,
                                                       body |-> body,
                                                       init |-> init ]],
                                   Merge(sendInit, [path |-> path])), 0)]
    /\ UNCHANGED <<token, now, options, chain, cred>>

\* Get in which a method in the caller's options wins
Get_CallerMethod(c, path, init) ==
    Helper(c, "get", path, Undefined, init,
           Merge([method |-> "GET"], Spread(init)))

Get(c, path, init) ==
    Helper(c, "get", path, Undefined, init,
           Merge(Spread(init), [method |-> "GET"]))

Post(c, path, body, init) ==
    Helper(c, "post", path, body, init, JsonRequest("POST", body, init))

Put(c, path, body, init) ==
    Helper(c, "put", path, body, init, JsonRequest("PUT", body, init))

Patch(c, path, body, init) ==
    Helper(c, "patch", path, body, init, JsonRequest("PATCH", body, init))

Delete(c, path, init) ==
    Helper(c, "delete", path, Undefined, init,
           Merge(Spread(init), [method |-> "DELETE"]))

\* time passes, up to the horizon and for as long as a timer is still to
\* fire; a timer that is due fires before the clock moves on
Tick ==
    /\ \/ now < MaxTicks * TickMs
       \/ \E c \in Calls : call[c].pc = "backoff" /\ now < call[c].frame.timer
       \/ cred.timer.state = "pending" /\ now < cred.timer.deadline
    /\ cred.timer.state = "pending" => now < cred.timer.deadline
    /\ now' = now + TickMs
    /\ UNCHANGED <<token, options, call, chain, cred>>

-----------------------------------------------------------------------------
(* ChainedCredential / DefaultChainedCredential *)

credentialChain ==
    << "WorkloadIdentityCredential", "ManagedIdentityCredential",
       "ServicePrincipalCredential", "AzureCliCredential" >>

Impls == {"ChainedCredential", "DefaultChainedCredential"}

\* failure messages of each strategy's getToken
StrategyErrors(name) ==
    CASE name = "WorkloadIdentityCredential" ->
            { "WorkloadIdentityCredential: Federated token file not found at /f",
              "WorkloadIdentityCredential: Failed to get token: EACCES" }
      [] name = "ManagedIdentityCredential" ->
            { "ManagedIdentityCredential: Timed out after 300ms waiting for metadata endpoint",
              "ManagedIdentityCredential: Failed to get token: bad request" }
      [] name = "ServicePrincipalCredential" ->
            { "ServicePrincipalCredential: The client secret is not provided.",
              "Failed to get token: unauthorized" }
      [] name = "AzureCliCredential" ->
            { "Failed to get token: Please login to Azure CLI",
              "Failed to get token: Azure CLI not found. Please install" }

ChainTokens == {Credential(a, FarFuture) : a \in {"tokA", "tokB"}}

InitChain ==
    [ pc |-> "idle", impl |-> "ChainedCredential", debug |-> FALSE, k |-> 0,
      errors |-> <<>>, constructed |-> <<>>, invoked |-> <<>>,
      answers |-> <<>>, log |-> <<>>, result |-> Null,
      calls |-> 0, failedBefore |-> {}, succeededBefore |-> {} ]


\* AggregateMessage that reports the last failure only
AggregateMessage_LastOnly(errors) ==
    << "Failed to get token, errors:",
       "[" \o errors[Len(errors)].name \o "] " \o errors[Len(errors)].error >>

\* the message of the aggregate error, as its lines
AggregateMessage(errors) ==
    << "Failed to get token, errors:" >> \o
    [ j \in 1..Len(errors) |->
        "[" \o errors[j].name \o "] " \o errors[j].error ]

\* Logged whose diagnostics lose the errors collected so far
Logged_DropsErrors(ch, line) ==
    IF ch.impl = "ChainedCredential" /\ ch.debug
    THEN [ch EXCEPT !.log = Append(@, line), !.errors = << >>]
    ELSE ch

\* console.log(line) when the diagnostic flag is on
Logged(ch, line) ==
    IF ch.impl = "ChainedCredential" /\ ch.debug
    THEN [ch EXCEPT !.log = Append(@, line)]
    ELSE ch

\* loop iteration k: Credential.fromEnv().getToken(scope) is awaited
Try(ch, k) ==
    LET name == credentialChain[k]
    IN  [Logged(ch, <<name, "trying">>) EXCEPT
            !.pc = "awaiting", !.k = k,
            !.constructed = Append(@, name),
            !.invoked = Append(@, name)]


\* ChainGetToken that remembers the strategy that answered the previous call
\* and starts from it
ChainGetToken_StartAtLast(impl, debug) ==
    /\ chain.pc \in {"idle", "returned", "failed"}
    /\ chain.calls < MaxChainCalls
    /\ chain' = Try([chain EXCEPT !.impl = impl, !.debug = debug,
                                  !.errors = <<>>, !.constructed = <<>>,
                                  !.invoked = <<>>, !.answers = <<>>,
                                  !.log = <<>>, !.result = Null,
                                  !.calls = @ + 1],
                    IF chain.pc = "returned" THEN chain.k ELSE 1)
    /\ UNCHANGED <<token, now, options, call, cred>>

\* a caller invokes getToken(scope) on the resolver
ChainGetToken(impl, debug) ==
    /\ chain.pc \in {"idle", "returned", "failed"}
    /\ chain.calls < MaxChainCalls
    /\ chain' = Try([chain EXCEPT !.impl = impl, !.debug = debug,
                                  !.errors = <<>>, !.constructed = <<>>,
                                  !.invoked = <<>>, !.answers = <<>>,
                                  !.log = <<>>, !.result = Null,
                                  !.calls = @ + 1], 1)
    /\ UNCHANGED <<token, now, options, call, cred>>


\* StrategyResolved that records the token but goes on down the chain
StrategyResolved_KeepGoing(tk) ==
    /\ chain.pc = "awaiting"
    /\ LET name == credentialChain[chain.k]
           got == [Logged(chain, <<name, "success">>) EXCEPT
                        !.result = tk,
                        !.answers = Append(@, [name |-> name, token |-> tk]),
                        !.succeededBefore = @ \cup {name}]
       IN  chain' = IF chain.k < Len(credentialChain)
                    THEN Try(got, chain.k + 1)
                    ELSE [got EXCEPT !.pc = "returned"]
    /\ UNCHANGED <<token, now, options, call, cred>>

\* the awaited strategy resolves with tk: getToken returns it
StrategyResolved(tk) ==
    /\ chain.pc = "awaiting"
    /\ LET name == credentialChain[chain.k]
       IN  chain' = [Logged(chain, <<name, "success">>) EXCEPT
                        !.pc = "returned", !.result = tk,
                        !.answers = Append(@, [name |-> name, token |-> tk]),
                        !.succeededBefore = @ \cup {name}]
    /\ UNCHANGED <<token, now, options, call, cred>>

\* the awaited strategy rejects with message e: recorded, next one tried,
\* and after the last one the aggregate error is thrown
StrategyRejected(e) ==
    /\ chain.pc = "awaiting"
    /\ LET name == credentialChain[chain.k]
           caught == [Logged(chain, <<name, "failed", e>>) EXCEPT
                        !.errors = Append(@, [name |-> name, error |-> e]),
                        !.answers = Append(@, [name |-> name, error |-> e]),
                        !.failedBefore = @ \cup {name}]
       IN  /\ e \in StrategyErrors(name)
           /\ chain' = IF chain.k < Len(credentialChain)
                       THEN Try(caught, chain.k + 1)
                       ELSE [caught EXCEPT
                               !.pc = "failed",
                               !.result = [kind |-> "error",
                                           message |-> AggregateMessage(caught.errors)]]
    /\ UNCHANGED <<token, now, options, call, cred>>

-----------------------------------------------------------------------------
(* The credential strategies *)

\* an Error object: new Error(m) is Err("Error", m)
Err(name, m) == [kind |-> "error", name |-> name, message |-> m]

\* error.stack: the error's name and message, then the stack frames
Stack(e) == e.name \o ": " \o e.message \o "\n    at <stack>"

Scopes == {"https://management.azure.com/.default"}

\* `${o.f}` in a template literal: the text "undefined" for a missing value
Template(o, f) == IF f \in DOMAIN o THEN o[f] ELSE "undefined"

\* o.f is there and is not the empty string
Truthy(o, f) == f \in DOMAIN o /\ o[f] # ""

NoOptions == [k \in {} |-> ""]

\* the option records in which f is left out or has one of the values vs
Partial(f, vs) == {NoOptions} \cup {[k \in {f} |-> v] : v \in vs}

\* the option records made of one record of A and one of B
Both(A, B) == {Merge(a, b) : a \in A, b \in B}

\* a Date: ms milliseconds after the epoch, or the invalid date new Date(NaN)
Date(ms) == [ms |-> ms]
InvalidDate == [invalid |-> TRUE]

\* No strategy constructed yet.  `options` are the instance's options and
\* `env.set` the environment variables that were set when fromEnv built it;
\* `sp` are the options of the ServicePrincipalCredential whose request is
\* in flight; `timer` is the timeout of the managed identity fetch;
\* `external` lists the external calls made so far (network requests, file
\* reads, subprocesses), `last` is the outcome of the latest one and
\* `result` what getToken settled with.
InitCred ==
    [ pc |-> "none", strategy |-> "none", options |-> Null, env |-> Null,
      scope |-> "", sp |-> Null,
      timer |-> [state |-> "none", deadline |-> 0],
      external |-> << >>, last |-> Null, result |-> Null ]

\* values of the environment variables when they are set
EnvValue ==
    [ AZURE_CLIENT_ID |-> "app",
      AZURE_CLIENT_SECRET |-> "s3cret",
      AZURE_TENANT_ID |-> "t1",
      AZURE_FEDERATED_TOKEN_FILE |-> "/f",
      AZURE_AUTHORITY_HOST |-> "https://login.example/",
      AZURE_MANAGED_IDENTITY_ENDPOINT |-> "http://msi.local/token",
      IDENTITY_ENDPOINT |-> "http://identity.local/token" ]

\* { field: process.env.VAR }
FromVar(env, var, field) ==
    IF var \in env THEN [k \in {field} |-> EnvValue[var]] ELSE NoOptions

\* new Strategy(options)
New(strategy, o) ==
    /\ cred.pc = "none"
    /\ cred' = [cred EXCEPT !.pc = "ready", !.strategy = strategy,
                            !.options = o]
    /\ UNCHANGED <<token, now, options, call, chain>>

\* Strategy.fromEnv() in an environment where the variables env are set
Constructed(strategy, env, o) ==
    /\ cred.pc = "none"
    /\ cred' = [cred EXCEPT !.pc = "ready", !.strategy = strategy,
                            !.options = o, !.env = [set |-> env]]
    /\ UNCHANGED <<token, now, options, call, chain>>

(* ServicePrincipalCredential *)

MissingSecretMsg ==
    "ServicePrincipalCredential: The client secret is not provided."

DefaultAuthority == "https://login.microsoftonline.com"
AuthorityHosts == {"https://login.example/"}

\* authorityHost.replace(/\/$/, "") on the hosts above
TrimSlash(h) == IF h = "https://login.example/" THEN "https://login.example"
                ELSE h

SPUrl(o) ==
    (IF "authorityHost" \in DOMAIN o THEN TrimSlash(o.authorityHost)
     ELSE DefaultAuthority)
      \o "/" \o Template(o, "tenantId") \o "/oauth2/v2.0/token"

\* SPParams that always sends the secret, and the assertion on top of it
SPParams_Both(o, scope) ==
    Merge([ client_id |-> Template(o, "clientId"),
            grant_type |-> "client_credentials",
            scope |-> scope,
            client_secret |-> o.clientSecret ],
          IF "federated" \in DOMAIN o /\ o.federated
          THEN [ client_assertion |-> o.clientSecret,
                 client_assertion_type |->
                   "urn:ietf:params:oauth:client-assertion-type:jwt-bearer" ]
          ELSE NoOptions)

\* the form parameters of the token request
SPParams(o, scope) ==
    Merge([ client_id |-> Template(o, "clientId"),
            grant_type |-> "client_credentials",
            scope |-> scope ],
          IF "federated" \in DOMAIN o /\ o.federated
          THEN [ client_assertion |-> o.clientSecret,
                 client_assertion_type |->
                   "urn:ietf:params:oauth:client-assertion-type:jwt-bearer" ]
          ELSE [ client_secret |-> o.clientSecret ])

SPOptions ==
    Both(Both(Both(Partial("clientId", {"app"}), Partial("tenantId", {"t1"})),
              Partial("clientSecret", {"s3cret", ""})),
         Both(Partial("authorityHost", AuthorityHosts),
              {[federated |-> b] : b \in BOOLEAN}))

SPEnvVars == {"AZURE_CLIENT_ID", "AZURE_CLIENT_SECRET", "AZURE_TENANT_ID"}

\* the options ServicePrincipalCredential.fromEnv passes to the constructor
SPFromEnv(env) ==
    Merge(Merge(FromVar(env, "AZURE_CLIENT_ID", "clientId"),
                FromVar(env, "AZURE_CLIENT_SECRET", "clientSecret")),
          Merge(FromVar(env, "AZURE_TENANT_ID", "tenantId"),
                [federated |-> FALSE]))

\* bodies of the token endpoint's success responses: well-formed ones, one
\* without access_token and one without expires_in
SPData ==
    { [access_token |-> "abc", expires_in |-> 3600],
      [access_token |-> "abd", expires_in |-> 1],
      [expires_in |-> 3600],
      [access_token |-> "abc"] }

ErrorBodies == {"{\"error\":\"invalid_client\"}"}
FetchErrors == {Err("TypeError", "fetch failed")}

\* SPStarted that sends the request before it looks at the secret
SPStarted_RequestFirst(ch, o, scope) ==
    [ch EXCEPT !.pc = "sp_fetch", !.sp = o,
               !.external = Append(@, [ kind |-> "fetch",
                                        url |-> SPUrl(o),
                                        method |-> "POST",
                                        body |-> SPParams(
                                          Merge([clientSecret |-> ""], o),
                                          scope) ])]

\* ServicePrincipalCredential.getToken(scope) up to its first await, on an
\* instance with options o
SPStarted(ch, o, scope) ==
    IF ~Truthy(o, "clientSecret")
    THEN [ch EXCEPT !.pc = "failed", !.sp = o,
                    !.result = Err("Error", MissingSecretMsg)]
    ELSE [ch EXCEPT !.pc = "sp_fetch", !.sp = o,
                    !.external = Append(@, [ kind |-> "fetch",
                                             url |-> SPUrl(o),
                                             method |-> "POST",
                                             body |-> SPParams(o, scope) ])]

ServicePrincipalGetToken(scope) ==
    /\ cred.pc = "ready"
    /\ cred.strategy = "ServicePrincipalCredential"
    /\ cred' = SPStarted([cred EXCEPT !.scope = scope], cred.options, scope)
    /\ UNCHANGED <<token, now, options, call, chain>>

ServicePrincipalFromEnv(env) ==
    Constructed("ServicePrincipalCredential", env, SPFromEnv(env))

\* the token built from the response body: access_token, and now plus
\* expires_in seconds
SPToken(data) ==
    Merge(IF "access_token" \in DOMAIN data
          THEN [token |-> data.access_token] ELSE NoOptions,
          [expiresAt |-> IF "expires_in" \in DOMAIN data
                         THEN Date(now + data.expires_in * 1000)
                         ELSE InvalidDate])

\* the token endpoint answers with a success status and the JSON body data
SPFetchOk(data) ==
    /\ cred.pc = "sp_fetch"
    /\ cred' = [cred EXCEPT !.pc = "returned",
                            !.last = [ok |-> TRUE, data |-> data, at |-> now],
                            !.result = SPToken(data)]
    /\ UNCHANGED <<token, now, options, call, chain>>

\* the token endpoint answers with a non-success status and the body text;
\* the error thrown in the try block is caught and wrapped
SPFetchNotOk(text) ==
    /\ cred.pc = "sp_fetch"
    /\ cred' = [cred EXCEPT
                  !.pc = "failed",
                  !.last = [ok |-> FALSE, text |-> text],
                  !.result =
                    Err("Error", "Failed to get token: "
                          \o Stack(Err("Error", "Failed to get token: " \o text)))]
    /\ UNCHANGED <<token, now, options, call, chain>>

\* the request fails at the network level
SPFetchRejected(e) ==
    /\ cred.pc = "sp_fetch"
    /\ cred' = [cred EXCEPT
                  !.pc = "failed",
                  !.last = e,
                  !.result = Err("Error", "Failed to get token: " \o Stack(e))]
    /\ UNCHANGED <<token, now, options, call, chain>>

(* WorkloadIdentityCredential *)

WIOptions ==
    Both(Both(Partial("clientId", {"app"}), Partial("tenantId", {"t1"})),
         Both(Partial("federatedTokenFile", {"/f"}),
              Partial("authorityHost", AuthorityHosts)))

WIEnvVars == { "AZURE_AUTHORITY_HOST", "AZURE_CLIENT_ID",
               "AZURE_FEDERATED_TOKEN_FILE", "AZURE_TENANT_ID" }

WIFromEnv(env) ==
    Merge(Merge(FromVar(env, "AZURE_AUTHORITY_HOST", "authorityHost"),
                FromVar(env, "AZURE_CLIENT_ID", "clientId")),
          Merge(FromVar(env, "AZURE_FEDERATED_TOKEN_FILE", "federatedTokenFile"),
                FromVar(env, "AZURE_TENANT_ID", "tenantId")))

\* errors of readFile: the file is missing, or it cannot be read
FileErrors ==
    { [code |-> "ENOENT", name |-> "Error",
       message |-> "ENOENT: no such file or directory, open '/f'"],
      [code |-> "EACCES", name |-> "Error",
       message |-> "EACCES: permission denied, open '/f'"] }

\* readFile(undefined) rejects before it touches the file system
InvalidPathError ==
    [ code |-> "ERR_INVALID_ARG_TYPE", name |-> "TypeError",
      message |-> "The \"path\" argument must be of type string or an instance of Buffer or URL. Received undefined" ]

FileContents == {"jwt", ""}

\* the catch block of WorkloadIdentityCredential.getToken
WICaught(ch, e) ==
    [ch EXCEPT
       !.pc = "failed",
       !.last = e,
       !.result =
         IF e.code = "ENOENT"
         THEN Err("Error",
                  "WorkloadIdentityCredential: Federated token file not found at "
                    \o Template(ch.options, "federatedTokenFile"))
         ELSE Err("Error", "WorkloadIdentityCredential: Failed to get token: "
                    \o e.message)]

WorkloadGetToken(scope) ==
    /\ cred.pc = "ready"
    /\ cred.strategy = "WorkloadIdentityCredential"
    /\ cred' = IF "federatedTokenFile" \in DOMAIN cred.options
               THEN [cred EXCEPT
                       !.pc = "wi_read", !.scope = scope,
                       !.external =
                         Append(@, [ kind |-> "readFile",
                                     path |-> cred.options.federatedTokenFile ])]
               ELSE WICaught([cred EXCEPT !.scope = scope], InvalidPathError)
    /\ UNCHANGED <<token, now, options, call, chain>>

WorkloadFromEnv(env) ==
    Constructed("WorkloadIdentityCredential", env, WIFromEnv(env))

\* WIReadResolved that forgets to mark the delegate as federated
WIReadResolved_NotFederated(content) ==
    /\ cred.pc = "wi_read"
    /\ cred' = SPStarted([cred EXCEPT !.last = [content |-> content]],
                         Merge(cred.options, [clientSecret |-> content,
                                              federated |-> FALSE]),
                         cred.scope)
    /\ UNCHANGED <<token, now, options, call, chain>>

\* the file was read: a ServicePrincipalCredential is built from the
\* options, with the content as its secret, and its getToken is returned
WIReadResolved(content) ==
    /\ cred.pc = "wi_read"
    /\ cred' = SPStarted([cred EXCEPT !.last = [content |-> content]],
                         Merge(cred.options, [clientSecret |-> content,
                                              federated |-> TRUE]),
                         cred.scope)
    /\ UNCHANGED <<token, now, options, call, chain>>

\* the file could not be read
WIReadRejected(e) ==
    /\ cred.pc = "wi_read"
    /\ cred' = WICaught(cred, e)
    /\ UNCHANGED <<token, now, options, call, chain>>

(* Numbers and dates read from text.  A text is a sequence of characters. *)

\* a JavaScript number: a value, or NaN
Num(n) == [num |-> n]
NaN == [nan |-> TRUE]
IsNaN(x) == "nan" \in DOMAIN x

DigitValue ==
    [ c \in {"0", "1", "2", "3", "4", "5", "6", "7", "8", "9"} |->
        CASE c = "0" -> 0 [] c = "1" -> 1 [] c = "2" -> 2 [] c = "3" -> 3
          [] c = "4" -> 4 [] c = "5" -> 5 [] c = "6" -> 6 [] c = "7" -> 7
          [] c = "8" -> 8 [] OTHER -> 9 ]

IsDigit(c) == c \in DOMAIN DigitValue

RECURSIVE DigitsValue(_)
\* the number written by a sequence of digits
DigitsValue(cs) ==
    IF cs = << >> THEN 0
    ELSE 10 * DigitsValue(SubSeq(cs, 1, Len(cs) - 1)) + DigitValue[cs[Len(cs)]]

RECURSIVE TrimStart(_)
TrimStart(cs) ==
    IF cs # << >> /\ cs[1] = " " THEN TrimStart(Tail(cs)) ELSE cs

RECURSIVE TrimEnd(_)
TrimEnd(cs) ==
    IF cs # << >> /\ cs[Len(cs)] = " "
    THEN TrimEnd(SubSeq(cs, 1, Len(cs) - 1)) ELSE cs

RECURSIVE DigitPrefix(_)
\* the longest prefix of cs made of digits
DigitPrefix(cs) ==
    IF cs # << >> /\ IsDigit(cs[1]) THEN << cs[1] >> \o DigitPrefix(Tail(cs))
    ELSE << >>

\* Number(text) for texts of digits, blanks, signs and letters
NumberOf(cs) ==
    LET t == TrimEnd(TrimStart(cs))
        u == IF t # << >> /\ t[1] \in {"-", "+"} THEN Tail(t) ELSE t
    IN  IF t = << >> THEN Num(0)
        ELSE IF u # << >> /\ \A j \in 1..Len(u) : IsDigit(u[j])
        THEN Num(IF t[1] = "-" THEN 0 - DigitsValue(u) ELSE DigitsValue(u))
        ELSE NaN

\* n * 1000 and new Date(n), which keep what is not a number
TimesThousand(x) == IF IsNaN(x) THEN NaN ELSE Num(x.num * 1000)
DateOf(x) == IF IsNaN(x) THEN InvalidDate ELSE Date(x.num)

(* ManagedIdentityCredential *)

DefaultEndpoint == "http://169.254.169.254/metadata/identity/oauth2/token"
DefaultTimeoutMs == 300

MIOptions ==
    Both(Both(Partial("identityEndpoint", {"http://msi.local/token"}),
              Partial("clientId", {"app"})),
         Partial("timeoutMs", {TickMs}))

MIEnvVars == { "AZURE_MANAGED_IDENTITY_ENDPOINT", "IDENTITY_ENDPOINT",
               "AZURE_CLIENT_ID", "AZURE_MANAGED_IDENTITY_TIMEOUT_MS" }

\* the options ManagedIdentityCredential.fromEnv passes to the constructor;
\* AZURE_MANAGED_IDENTITY_TIMEOUT_MS, when set, is "100"
MIFromEnv(env) ==
    Merge(Merge(IF "AZURE_MANAGED_IDENTITY_ENDPOINT" \in env
                THEN FromVar(env, "AZURE_MANAGED_IDENTITY_ENDPOINT",
                             "identityEndpoint")
                ELSE FromVar(env, "IDENTITY_ENDPOINT", "identityEndpoint"),
                FromVar(env, "AZURE_CLIENT_ID", "clientId")),
          IF "AZURE_MANAGED_IDENTITY_TIMEOUT_MS" \in env
          THEN [timeoutMs |-> 100] ELSE NoOptions)

\* scope.replace(".default", "") on the scopes above
StripDefault(scope) ==
    IF scope = "https://management.azure.com/.default"
    THEN "https://management.azure.com/" ELSE scope

\* URLSearchParams' encoding of the resources above
Encoded(resource) ==
    IF resource = "https://management.azure.com/"
    THEN "https%3A%2F%2Fmanagement.azure.com%2F" ELSE resource

\* `${endpoint}?${params.toString()}`
MIUrl(o, scope) ==
    (IF Truthy(o, "identityEndpoint") THEN o.identityEndpoint
     ELSE DefaultEndpoint)
      \o "?resource=" \o Encoded(StripDefault(scope))
      \o "&apiVersion=2018-02-01"
      \o (IF Truthy(o, "clientId") THEN "&client_id=" \o o.clientId ELSE "")

\* this.options.timeoutMs ?? 300
MITimeoutMs(o) ==
    IF "timeoutMs" \in DOMAIN o THEN o.timeoutMs ELSE DefaultTimeoutMs

MITimeoutMsg(o, scope) ==
    "ManagedIdentityCredential: Timed out after " \o ToString(MITimeoutMs(o))
      \o "ms waiting for metadata endpoint (" \o MIUrl(o, scope) \o ")"

\* bodies of the metadata endpoint's success responses: expires_on given
\* as epoch seconds, left out, or not a number; one without access_token
MIData ==
    { Merge([access_token |-> "abc", client_id |-> "app",
             token_type |-> "Bearer"], e) :
        e \in Partial("expires_on", { <<"1", "7">>, <<"7">>, <<"x">> }) }
      \cup { [token_type |-> "Bearer", expires_on |-> <<"1", "7">>] }

\* the token built from the response body
MIToken(data) ==
    Merge(Merge(IF "access_token" \in DOMAIN data
                THEN [accessToken |-> data.access_token] ELSE NoOptions,
                IF "client_id" \in DOMAIN data
                THEN [clientId |-> data.client_id] ELSE NoOptions),
          Merge(IF "token_type" \in DOMAIN data
                THEN [tokenType |-> data.token_type] ELSE NoOptions,
                [expiresAt |->
                   IF "expires_on" \in DOMAIN data /\ data.expires_on # << >>
                   THEN DateOf(TimesThousand(NumberOf(data.expires_on)))
                   ELSE Date(now + 60 * 60 * 1000)]))

\* getToken(scope) up to its await: the timer is started and the metadata
\* endpoint is fetched
ManagedGetToken(scope) ==
    /\ cred.pc = "ready"
    /\ cred.strategy = "ManagedIdentityCredential"
    /\ cred' = [cred EXCEPT
                  !.pc = "mi_fetch", !.scope = scope,
                  !.timer = [ state |-> "pending",
                              deadline |-> now + MITimeoutMs(cred.options) ],
                  !.external = Append(@, [ kind |-> "fetch",
                                           url |-> MIUrl(cred.options, scope),
                                           headers |-> [Metadata |-> "true"] ])]
    /\ UNCHANGED <<token, now, options, call, chain>>

ManagedFromEnv(env) ==
    Constructed("ManagedIdentityCredential", env, MIFromEnv(env))

\* the timer fires while the fetch is in flight: controller.abort()
MITimerFired ==
    /\ cred.pc = "mi_fetch"
    /\ cred.timer.state = "pending"
    /\ now >= cred.timer.deadline
    /\ cred' = [cred EXCEPT !.pc = "mi_aborted", !.timer.state = "fired"]
    /\ UNCHANGED <<token, now, options, call, chain>>

\* the aborted fetch rejects with an AbortError, which the catch block
\* turns into the timeout error
MIFetchAborted ==
    /\ cred.pc = "mi_aborted"
    /\ cred' = [cred EXCEPT
                  !.pc = "failed",
                  !.last = Err("AbortError", "This operation was aborted"),
                  !.result = Err("Error",
                                 MITimeoutMsg(cred.options, cred.scope))]
    /\ UNCHANGED <<token, now, options, call, chain>>

\* MIFetchOk that leaves the timer running
MIFetchOk_TimerLeft(data) ==
    /\ cred.pc = "mi_fetch"
    /\ cred' = [cred EXCEPT
                  !.pc = "returned",
                  !.last = [ok |-> TRUE, data |-> data, at |-> now],
                  !.result = MIToken(data)]
    /\ UNCHANGED <<token, now, options, call, chain>>

\* the endpoint answers with a success status and the JSON body data
MIFetchOk(data) ==
    /\ cred.pc = "mi_fetch"
    /\ cred' = [cred EXCEPT
                  !.pc = "returned", !.timer.state = "cleared",
                  !.last = [ok |-> TRUE, data |-> data, at |-> now],
                  !.result = MIToken(data)]
    /\ UNCHANGED <<token, now, options, call, chain>>

\* the endpoint answers with a non-success status and the body text
MIFetchNotOk(text) ==
    /\ cred.pc = "mi_fetch"
    /\ cred' = [cred EXCEPT
                  !.pc = "failed", !.timer.state = "cleared",
                  !.last = [ok |-> FALSE, text |-> text],
                  !.result = Err("Error",
                                 "ManagedIdentityCredential: Failed to get token: "
                                   \o text)]
    /\ UNCHANGED <<token, now, options, call, chain>>

\* MIFetchRejected that wraps the error like the other strategies do
MIFetchRejected_Wrapped(e) ==
    /\ cred.pc = "mi_fetch"
    /\ cred' = [cred EXCEPT
                  !.pc = "failed", !.timer.state = "cleared",
                  !.last = e,
                  !.result = Err("Error", "Failed to get token: " \o e.message)]
    /\ UNCHANGED <<token, now, options, call, chain>>

\* the fetch fails for another reason than the abort: the error is rethrown
MIFetchRejected(e) ==
    /\ cred.pc = "mi_fetch"
    /\ cred' = [cred EXCEPT
                  !.pc = "failed", !.timer.state = "cleared",
                  !.last = e,
                  !.result = e]
    /\ UNCHANGED <<token, now, options, call, chain>>

(* AzureCliCredential *)

\* all sequences over S of length at most n
SeqsUpTo(S, n) == UNION {[1..k -> S] : k \in 0..n}

\* Number.parseInt(text, 10): blanks are skipped, a sign is read, then the
\* longest run of digits; NaN when there is no digit
ParseInt(cs) ==
    LET t == TrimStart(cs)
        u == IF t # << >> /\ t[1] \in {"-", "+"} THEN Tail(t) ELSE t
        p == DigitPrefix(u)
    IN  IF p = << >> THEN NaN
        ELSE Num(IF t[1] = "-" THEN 0 - DigitsValue(p) ELSE DigitsValue(p))

\* the date strings the CLI prints as expiresOn, and one that is no date
DateStrings == {"1970-01-01T00:33:20Z", "soon"}

\* new Date(text) on the strings above
ParseDate(text) ==
    IF text = "1970-01-01T00:33:20Z" THEN Date(2000000) ELSE InvalidDate

\* stderr is a sequence of pieces of text
StderrPieces ==
    {"az login", " --scope", "az:", " not found", "\n",
     "'az' is not recognized"}

Stderrs == SeqsUpTo(StderrPieces, MaxStderr)

RECURSIVE Concat(_)
\* the text of a sequence of pieces
Concat(ps) == IF ps = << >> THEN "" ELSE ps[1] \o Concat(Tail(ps))

\* stderr.match("(.*)az login --scope(.*)")
MatchesScopeHint(se) ==
    \E j \in 1..(Len(se) - 1) : se[j] = "az login" /\ se[j + 1] = " --scope"

\* stderr.match("(.*)az login(.*)")
MatchesLogin(se) == \E j \in 1..Len(se) : se[j] = "az login"

\* stderr.match("az:(.*)not found"): the dot matches no line break
MatchesNotFound(se) ==
    \E j \in 1..Len(se) : \E k \in (j + 1)..Len(se) :
        /\ se[j] = "az:"
        /\ se[k] = " not found"
        /\ \A l \in (j + 1)..(k - 1) : se[l] # "\n"

\* parseCliLoginError in which the scope hint does not lift the login error
parseCliLoginError_NoScopeHint(se) ==
    [ isLoginError |-> MatchesLogin(se),
      isNotInstallError |->
        MatchesNotFound(se)
          \/ (se # << >> /\ se[1] = "'az' is not recognized") ]

parseCliLoginError(se) ==
    [ isLoginError |-> MatchesLogin(se) /\ ~MatchesScopeHint(se),
      isNotInstallError |->
        MatchesNotFound(se)
          \/ (se # << >> /\ se[1] = "'az' is not recognized") ]

NotInstalledMsg == "Azure CLI not found. Please install"
LoginMsg == "Please login to Azure CLI"

\* the error argument of execFile's callback: null, or the failure of the
\* subprocess
ExecErrors == {Null, Err("Error", "Command failed: az")}

\* stdout of `az account show --query tenantId --output tsv`
TenantOutputs == {"t9\n", "\n"}

\* stdout.trim() on the outputs above
Trimmed(out) == IF out = "t9\n" THEN "t9" ELSE ""

\* texts of expires_on: sequences of the characters below
TextChars == {"1", "7", "x", " "}
Texts == SeqsUpTo(TextChars, MaxText)

\* stdout of `az account get-access-token`: JSON objects with accessToken,
\* expires_on and expiresOn present or not, and one text that is not JSON
CliOutputs ==
    { [json |-> Merge(Merge([accessToken |-> "abc", tokenType |-> "Bearer"], a), b)] :
        a \in Partial("expires_on", Texts), b \in Partial("expiresOn", DateStrings) }
      \cup { [json |-> [tokenType |-> "Bearer", expires_on |-> <<"1", "7">>]],
             [garbage |-> "az: warning"] }

\* parseRawOutput in which expiresOn is preferred when it is there
parseRawOutput_PreferDateString(response) ==
    Merge(Merge(IF "accessToken" \in DOMAIN response
                THEN [accessToken |-> response.accessToken] ELSE NoOptions,
                IF "tokenType" \in DOMAIN response
                THEN [tokenType |-> response.tokenType] ELSE NoOptions),
          [expiresAt |->
             IF "expiresOn" \in DOMAIN response
             THEN ParseDate(response.expiresOn)
             ELSE DateOf(TimesThousand(
                    IF "expires_on" \in DOMAIN response
                    THEN ParseInt(response.expires_on) ELSE NaN))])

\* parseRawOutput after JSON.parse(output)
parseRawOutput(response) ==
    LET expiresOnTimestamp ==
          TimesThousand(IF "expires_on" \in DOMAIN response
                        THEN ParseInt(response.expires_on) ELSE NaN)
    IN  Merge(Merge(IF "accessToken" \in DOMAIN response
                    THEN [accessToken |-> response.accessToken] ELSE NoOptions,
                    IF "tokenType" \in DOMAIN response
                    THEN [tokenType |-> response.tokenType] ELSE NoOptions),
              [expiresAt |->
                 IF ~IsNaN(expiresOnTimestamp) THEN DateOf(expiresOnTimestamp)
                 ELSE IF "expiresOn" \in DOMAIN response
                 THEN ParseDate(response.expiresOn)
                 ELSE InvalidDate])

CliOptions == Partial("tenantId", {"t1"})
CliEnvVars == {"AZURE_TENANT_ID"}

\* the options AzureCliCredential.fromEnv passes to the constructor
CliFromEnv(env) == FromVar(env, "AZURE_TENANT_ID", "tenantId")

\* the catch block of getToken: every error is wrapped
CliCaught(ch, m) ==
    [ch EXCEPT !.pc = "failed",
               !.result = Err("Error", "Failed to get token: " \o m)]

\* getCliToken(scope, tenantId): the token subprocess is started
CliTokenStarted(ch, tenantId) ==
    [ch EXCEPT !.pc = "cli_token",
               !.external = Append(@, [ kind |-> "execFile",
                                        command |-> "account get-access-token",
                                        resource |-> StripDefault(ch.scope),
                                        tenant |-> tenantId ])]

AzureCliGetToken(scope) ==
    /\ cred.pc = "ready"
    /\ cred.strategy = "AzureCliCredential"
    /\ cred' = IF "tenantId" \in DOMAIN cred.options
               THEN CliTokenStarted([cred EXCEPT !.scope = scope],
                                    cred.options.tenantId)
               ELSE [cred EXCEPT
                       !.pc = "cli_tenant", !.scope = scope,
                       !.external = Append(@, [ kind |-> "execFile",
                                                command |-> "account show",
                                                outcome |-> Null ])]
    /\ UNCHANGED <<token, now, options, call, chain>>

AzureCliFromEnv(env) ==
    Constructed("AzureCliCredential", env, CliFromEnv(env))

\* what the callback of the tenant query found: the two flags of
\* parseCliLoginError, whether execFile reported an error, and whether the
\* trimmed output is empty
TenantQueryOutcome(error, stdout, stderr) ==
    [ isNotInstallError |-> parseCliLoginError(stderr).isNotInstallError,
      isLoginError |-> parseCliLoginError(stderr).isLoginError,
      error |-> error # Null,
      empty |-> Trimmed(stdout) = "" ]

\* CliTenantExited that does not look at the error execFile reports
CliTenantExited_IgnoresError(error, stdout, stderr) ==
    /\ cred.pc = "cli_tenant"
    /\ LET found == TenantQueryOutcome(error, stdout, stderr)
           seen == [cred EXCEPT !.external[1].outcome = found]
           ch == [seen EXCEPT !.last = [ error |-> error, stderr |-> stderr,
                                         stdout |-> stdout ]]
       IN  cred' =
             IF found.isNotInstallError THEN CliCaught(ch, NotInstalledMsg)
             ELSE IF found.isLoginError THEN CliCaught(ch, LoginMsg)
             ELSE IF found.empty
             THEN CliCaught(ch, "Could not detect tenantId from Azure CLI context.")
             ELSE CliTokenStarted(seen, Trimmed(stdout))
    /\ UNCHANGED <<token, now, options, call, chain>>

\* the callback of the tenant query
CliTenantExited(error, stdout, stderr) ==
    /\ cred.pc = "cli_tenant"
    /\ LET found == TenantQueryOutcome(error, stdout, stderr)
           seen == [cred EXCEPT !.external[1].outcome = found]
           ch == [seen EXCEPT !.last = [ error |-> error, stderr |-> stderr,
                                         stdout |-> stdout ]]
       IN  cred' =
             IF found.isNotInstallError THEN CliCaught(ch, NotInstalledMsg)
             ELSE IF found.isLoginError THEN CliCaught(ch, LoginMsg)
             ELSE IF found.error
             THEN CliCaught(ch, "Failed to detect tenantId from Azure CLI context: "
                                  \o Concat(stderr))
             ELSE IF found.empty
             THEN CliCaught(ch, "Could not detect tenantId from Azure CLI context.")
             ELSE CliTokenStarted(seen, Trimmed(stdout))
    /\ UNCHANGED <<token, now, options, call, chain>>

\* the callback of the token subprocess, and getToken's parsing of stdout
\* when the callback resolves
CliTokenExited(error, stdout, stderr) ==
    /\ cred.pc = "cli_token"
    /\ LET parsed == parseCliLoginError(stderr)
           ch == [cred EXCEPT !.last = [error |-> error, stderr |-> stderr]]
           out == [cred EXCEPT !.last = [ error |-> error, stderr |-> stderr,
                                          stdout |-> stdout ]]
       IN  cred' =
             IF parsed.isNotInstallError THEN CliCaught(ch, NotInstalledMsg)
             ELSE IF parsed.isLoginError THEN CliCaught(ch, LoginMsg)
             ELSE IF error # Null
             THEN CliCaught(ch, "Failed to get token: " \o error.message)
             ELSE IF "json" \in DOMAIN stdout
             THEN [out EXCEPT !.pc = "returned",
                              !.result = parseRawOutput(stdout.json)]
             ELSE CliCaught(out, "Unexpected token 'a', \"az: warning\" is not valid JSON")
    /\ UNCHANGED <<token, now, options, call, chain>>

-----------------------------------------------------------------------------
(* Specifications *)

Init ==
    /\ token = Null
    /\ now = 0
    /\ options \in [baseUrl : BaseUrls, builder : BOOLEAN]
    /\ call = [c \in Calls |-> InitCall]
    /\ chain = InitChain
    /\ cred = InitCred

Next ==
    \/ \E c \in Calls, init \in Inits : SendRequest(c, init)
    \/ \E c \in Calls, e \in HelperExpiries : RefreshToken(c, HelperToken(c, e))
    \/ \E c \in Calls, e \in HelperErrors : RefreshRejected(c, e)
    \/ \E c \in Calls : Resume(c)
    \/ \E c \in Calls : BackoffElapsed(c)
    \/ \E c \in Calls, s \in Statuses : FetchResolved(c, s)
    \/ \E c \in Calls, e \in TransportErrors : FetchRejected(c, e)
    \/ Tick

Spec == Init /\ [][Next]_vars

\* What the runtime and the callers' environment guarantee: every
\* helper.getToken call and every transport call settles, a continuation
\* that is ready runs, time passes and a timer that is due fires.
Fairness ==
    /\ \A c \in Calls :
         /\ WF_vars((\E e \in HelperExpiries : RefreshToken(c, HelperToken(c, e)))
                      \/ (\E e \in HelperErrors : RefreshRejected(c, e)))
         /\ WF_vars(Resume(c))
         /\ WF_vars(BackoffElapsed(c))
         /\ WF_vars((\E s \in Statuses : FetchResolved(c, s))
                      \/ (\E e \in TransportErrors : FetchRejected(c, e)))
    /\ WF_vars(Tick)

\* one client and the plainest request per call: the loop of sendRequest
\* looks at the cached token and the clock only, never at the request
InitLive ==
    /\ Init
    /\ ~options.builder

NextLive ==
    \/ \E c \in Calls : SendRequest(c, [path |-> "/y", headers |-> NoHeaders])
    \/ \E c \in Calls, e \in HelperExpiries : RefreshToken(c, HelperToken(c, e))
    \/ \E c \in Calls, e \in HelperErrors : RefreshRejected(c, e)
    \/ \E c \in Calls : Resume(c)
    \/ \E c \in Calls : BackoffElapsed(c)
    \/ \E c \in Calls : FetchResolved(c, 200)
    \/ \E c \in Calls, e \in TransportErrors : FetchRejected(c, e)
    \/ Tick

SpecLive == InitLive /\ [][NextLive]_vars /\ Fairness

NextChain ==
    \/ \E impl \in Impls, debug \in BOOLEAN : ChainGetToken(impl, debug)
    \/ \E tk \in ChainTokens : StrategyResolved(tk)
    \/ \E name \in {credentialChain[j] : j \in 1..Len(credentialChain)} :
         \E e \in StrategyErrors(name) : StrategyRejected(e)

SpecChain == Init /\ [][NextChain]_vars

\* One call on a client, made through sendRequest or a verb helper, with
\* every base URL, path, header map and body of the sets above.
InitVerbs ==
    /\ token = Null
    /\ now = 0
    /\ options \in [baseUrl : VerbBaseUrls, builder : BOOLEAN]
    /\ call = [c \in Calls |-> InitCall]
    /\ chain = InitChain
    /\ cred = InitCred

NextVerbs ==
    \/ \E path \in Paths, h \in CallerHeaders :
         SendRequest(1, [path |-> path, headers |-> h])
    \/ \E path \in Paths, init \in CallerInits : Get(1, path, init)
    \/ \E path \in Paths, body \in Bodies, init \in CallerInits :
         Post(1, path, body, init)
    \/ \E path \in Paths, body \in Bodies, init \in CallerInits :
         Put(1, path, body, init)
    \/ \E path \in Paths, body \in Bodies, init \in CallerInits :
         Patch(1, path, body, init)
    \/ \E path \in Paths, init \in CallerInits : Delete(1, path, init)
    \/ RefreshToken(1, HelperToken(1, FarFuture))
    \/ Resume(1)
    \/ \E s \in Statuses : FetchResolved(1, s)

SpecVerbs == InitVerbs /\ [][NextVerbs]_vars

\* One strategy instance, built with explicit options or by fromEnv, and one
\* getToken call on it, while time passes.
NextCred ==
    \/ \E o \in SPOptions : New("ServicePrincipalCredential", o)
    \/ \E env \in SUBSET SPEnvVars : ServicePrincipalFromEnv(env)
    \/ \E scope \in Scopes : ServicePrincipalGetToken(scope)
    \/ \E data \in SPData : SPFetchOk(data)
    \/ \E text \in ErrorBodies : SPFetchNotOk(text)
    \/ \E e \in FetchErrors : SPFetchRejected(e)
    \/ \E o \in WIOptions : New("WorkloadIdentityCredential", o)
    \/ \E env \in SUBSET WIEnvVars : WorkloadFromEnv(env)
    \/ \E scope \in Scopes : WorkloadGetToken(scope)
    \/ \E content \in FileContents : WIReadResolved(content)
    \/ \E e \in FileErrors : WIReadRejected(e)
    \/ \E o \in MIOptions : New("ManagedIdentityCredential", o)
    \/ \E env \in SUBSET MIEnvVars : ManagedFromEnv(env)
    \/ \E scope \in Scopes : ManagedGetToken(scope)
    \/ MITimerFired
    \/ MIFetchAborted
    \/ \E data \in MIData : MIFetchOk(data)
    \/ \E text \in ErrorBodies : MIFetchNotOk(text)
    \/ \E e \in FetchErrors : MIFetchRejected(e)
    \/ Tick

SpecCred == Init /\ [][NextCred]_vars

\* One AzureCliCredential instance and one getToken call on it.  A callback
\* runs only while its subprocess is pending.
NextCli ==
    \/ \E o \in CliOptions : New("AzureCliCredential", o)
    \/ \E env \in SUBSET CliEnvVars : AzureCliFromEnv(env)
    \/ \E scope \in Scopes : AzureCliGetToken(scope)
    \/ /\ cred.pc = "cli_tenant"
       /\ \E error \in ExecErrors, stdout \in TenantOutputs, stderr \in Stderrs :
            CliTenantExited(error, stdout, stderr)
    \/ /\ cred.pc = "cli_token"
       /\ \E error \in ExecErrors, stdout \in CliOutputs, stderr \in Stderrs :
            CliTokenExited(error, stdout, stderr)

SpecCli == Init /\ [][NextCli]_vars

-----------------------------------------------------------------------------
(* Properties of sendRequest (checked under Spec) *)

\* the token the helper hands to call c
Own(c) == "tok" \o ToString(c)

\* the default header is sent as it is: no builder, and the caller's own
\* headers do not set Authorization
DefaultAuth(init) ==
    ~options.builder /\ "Authorization" \notin DOMAIN init.headers

\* call c has left the refresh loop
PastLoop(c) == call[c].pc \in {"fetching", "done", "rejected"}

\* C1: a call that found the cache absent, and that found a token expiring
\* strictly after now at the check following its first refresh, has invoked
\* the helper exactly once and the transport exactly once; when that token
\* is the one its helper returned and no builder is configured (and the
\* caller's headers do not themselves set Authorization), the request's
\* Authorization header is "Bearer " followed by the token's accessToken.
C1_OneRefreshThenBearer ==
    \A c \in Calls :
        ( /\ call[c].entry = "absent"
          /\ call[c].checks = 2
          /\ call[c].seen = "fresh" )
        => ( /\ call[c].getTokenCalls = 1
             /\ call[c].resolved = 1
             /\ call[c].fetchCalls = 1
             /\ PastLoop(c)
             /\ ( /\ call[c].pc = "fetching"
                  /\ call[c].sent.token.accessToken = Own(c)
                  /\ DefaultAuth(call[c].init) )
                => call[c].sent.headers.Authorization = "Bearer " \o Own(c) )

\* the first call, alone on the client, found no token, refreshed once and
\* has dispatched with the default header
C1_Witness ==
    /\ call[1].pc = "fetching"
    /\ call[1].entry = "absent"
    /\ call[1].getTokenCalls = 1
    /\ \A d \in Calls \ {1} : call[d].pc = "idle"
    /\ ~options.builder
    /\ call[1].sent.headers = [Authorization |-> "Bearer tok1"]

\* C2 (as claimed): a call that found the cached token expired, and whose
\* helper never answered it with a token, rejects only after 3 getToken
\* calls, with the refresh-exhausted error, and without calling the
\* transport.
C2_AllFailedRejectsExhausted ==
    \A c \in Calls :
        ( /\ call[c].pc = "rejected"
          /\ call[c].entry = "stale"
          /\ call[c].resolved = 0 )
        => ( /\ call[c].getTokenCalls = 3
             /\ call[c].outcome = Failure(RefreshExhaustedMsg)
             /\ call[c].fetchCalls = 0 )

\* C3: a call that entered sendRequest while the cached token expired
\* strictly after now dispatched at its first check, with that token, and
\* never invokes the helper; one that entered when expiresAt <= now (or with
\* no token) invoked the helper, and dispatches, if at all, at a later check.
C3_FreshUsesCacheStaleRefreshes ==
    \A c \in Calls :
        call[c].pc # "idle"
        => IF call[c].entry = "fresh"
           THEN /\ call[c].getTokenCalls = 0
                /\ call[c].checks = 1
                /\ call[c].fetchCalls = 1
                /\ PastLoop(c)
                /\ call[c].pc = "fetching"
                     => call[c].sent.headers
                          = RequestHeaders(call[c].sent.token, call[c].init)
           ELSE /\ call[c].getTokenCalls >= 1
                /\ call[c].fetchCalls = 1 => call[c].checks >= 2

\* the second call dispatched on the token the first call had cached,
\* without a getToken call of its own
C3_Witness ==
    /\ call[2].pc = "fetching"
    /\ call[2].entry = "fresh"
    /\ call[2].getTokenCalls = 0
    /\ ~options.builder
    /\ call[2].sent.headers = [Authorization |-> "Bearer tok1"]

\* C4: no call invokes the helper more than 3 times; a call that has
\* refreshed 3 times and then, at its fourth check, finds the cached token
\* absent or not strictly unexpired rejects with the refresh-exhausted error
\* and never calls the transport.
C4_AtMostThreeRefreshes ==
    \A c \in Calls :
        /\ call[c].getTokenCalls <= 3
        /\ call[c].checks <= 4
        /\ (call[c].checks = 4 /\ call[c].seen # "fresh")
           => ( /\ call[c].pc = "rejected"
                /\ call[c].outcome = Failure(RefreshExhaustedMsg)
                /\ call[c].getTokenCalls = 3
                /\ call[c].fetchCalls = 0 )

C4_Witness ==
    \E c \in Calls :
        /\ call[c].pc = "rejected"
        /\ call[c].outcome = Failure(RefreshExhaustedMsg)
        /\ call[c].checks = 4
        /\ call[c].getTokenCalls = 3
        /\ call[c].resolved = 3
        /\ call[c].fetchCalls = 0

\* C5: a call that has handed a request to the transport found the cache
\* fresh at its latest check, and the request was built, at the time of that
\* check, from a token that then expired strictly after now.
C5_DispatchOnlyFresh ==
    \A c \in Calls :
        call[c].fetchCalls >= 1
        => ( /\ call[c].seen = "fresh"
             /\ call[c].checks = call[c].getTokenCalls + 1
             /\ call[c].pc = "fetching"
                  => ( /\ call[c].sent.token # Null
                       /\ call[c].sent.token.expiresAt > call[c].sent.at
                       /\ call[c].sent.headers
                            = RequestHeaders(call[c].sent.token, call[c].init) ) )

\* interleaved calls: the first call dispatched on the token the second
\* call's refresh had put into the cache
C5_Witness ==
    /\ call[1].pc = "fetching"
    /\ call[1].getTokenCalls >= 1
    /\ ~options.builder
    /\ call[1].sent.headers = [Authorization |-> "Bearer tok2"]

\* C6: a call invokes the transport at most once, and once exactly when it
\* gets past the refresh loop with a token; it settles with what the
\* transport answered, response of any status or error, unchanged; after the
\* transport's answer there is no further getToken call and no second fetch.
C6_OneFetchPassedThrough ==
    \A c \in Calls :
        /\ call[c].fetchCalls <= 1
        /\ call[c].pc \in {"fetching", "done"} => call[c].fetchCalls = 1
        /\ call[c].pc = "fetching"
             => call[c].fetched = Null /\ call[c].outcome = Null
        /\ call[c].pc = "done" => call[c].fetched # Null
        /\ call[c].fetched # Null
             => ( /\ call[c].pc = IF call[c].fetched.kind = "response"
                                  THEN "done" ELSE "rejected"
                  /\ call[c].outcome = call[c].fetched
                  /\ call[c].fetchCalls = 1
                  /\ call[c].getTokenCalls = call[c].checks - 1 )

\* a 5xx response came back as the call's result, and a transport error as
\* the call's error
C6_Witness ==
    /\ call[1].pc = "done"
    /\ call[1].outcome = Response(500)
    /\ call[1].fetchCalls = 1
    /\ call[2].pc = "rejected"
    /\ call[2].outcome \in {Failure(e) : e \in TransportErrors}
    /\ call[2].fetchCalls = 1

\* C10: every check at which a call found the cache not fresh, with attempts
\* left, was followed by a helper invocation of that call's own, whatever
\* refreshes other calls had in flight; a call that found the cache fresh
\* dispatched its own request.
C10_NoSingleFlight ==
    \A c \in Calls :
        call[c].pc # "idle"
        => IF call[c].seen = "fresh"
           THEN call[c].fetchCalls = 1
           ELSE /\ call[c].fetchCalls = 0
                /\ call[c].checks <= MAX_TOKEN_RETRIES
                     => call[c].getTokenCalls = call[c].checks

\* every call has a getToken invocation of its own in flight at once
C10_Witness ==
    /\ NumCalls >= 2
    /\ \A c \in Calls : call[c].pc = "refreshing" /\ call[c].getTokenCalls >= 1

\* C21: within one sendRequest call, the wait made before the j-th helper
\* invocation is 100 * (j - 1) ms: none before the first, 100 ms before the
\* second, 200 ms before the third.
C21_BackoffBeforeEachRefresh ==
    \A c \in Calls :
        \A j \in 1..Len(call[c].waits) : call[c].waits[j] = 100 * (j - 1)

\* C26: the cache holds the token of the refresh that completed last,
\* whatever it held before: every token a helper returns replaces the
\* cached one, also when the cached one was still valid or expires later.
C26_LastRefreshWins ==
    /\ \A c \in Calls : call[c].latest => token = call[c].got
    /\ \A c \in Calls : call[c].resolved > 0 => call[c].got # Null
    /\ \A c, d \in Calls : (call[c].latest /\ call[d].latest) => c = d

\* the second call's refresh completed last and replaced the first call's
\* token, which was still valid and expires later
C26_Witness ==
    /\ call[1].got # Null
    /\ call[2].got # Null
    /\ call[2].latest
    /\ token = call[2].got
    /\ call[1].got.expiresAt > now
    /\ call[1].got.expiresAt > call[2].got.expiresAt

\* C27: the cache is absent before any call is made and stays absent
\* while no refresh has resolved, whatever helper failures happen; once a
\* refresh has resolved the cache is never absent again, and it is the
\* token of the latest resolved refresh, whatever calls failed since.
C27_CacheNeverReset ==
    /\ (\A c \in Calls : call[c].pc = "idle") => token = Null
    /\ (\A c \in Calls : call[c].resolved = 0) => token = Null
    /\ (\E c \in Calls : call[c].resolved > 0)
         => /\ token # Null
            /\ \E c \in Calls : call[c].latest /\ token = call[c].got

\* the second call's helper rejected its second attempt; the token the
\* first call's refresh cached last is still the cached one
C27_Witness ==
    /\ call[1].latest
    /\ call[2].pc = "rejected"
    /\ call[2].rejection # Null
    /\ call[2].resolved = 1
    /\ token # Null
    /\ token = call[1].got

\* C28: no call fails with 'Token is unexpectedly null after refresh
\* attempts': a call that left the loop through the freshness check has
\* reached the transport, and the token it dispatched with is present.
C28_NullGuardUnreachable ==
    \A c \in Calls :
        /\ call[c].outcome # Failure(TokenNullMsg)
        /\ call[c].seen = "fresh" => call[c].fetchCalls = 1
        /\ call[c].pc = "fetching" => call[c].sent.token # Null
        /\ call[c].fetchCalls > 0 => token # Null

\* two calls interleave: one was rejected by its helper, the other has
\* passed the loop on a token it refreshed itself
C28_Witness ==
    /\ call[1].pc = "rejected"
    /\ call[1].rejection # Null
    /\ call[2].pc = "fetching"
    /\ call[2].entry = "absent"
    /\ call[2].sent.token # Null

C33_EveryCallSettles ==
    /\ [](\A c \in Calls : /\ call[c].checks <= MAX_TOKEN_RETRIES + 1
                            /\ call[c].getTokenCalls <= MAX_TOKEN_RETRIES)
    /\ \A c \in Calls :
         (call[c].pc # "idle") ~> (call[c].pc \in {"done", "rejected"})

\* the helper answered all three refreshes of the first call with tokens
\* that were expired at the next check, and the call was rejected at its
\* fourth check while the second call was under way
C33_Witness ==
    /\ call[1].pc = "rejected"
    /\ call[1].checks = 4
    /\ call[1].resolved = 3
    /\ call[1].outcome = Failure(RefreshExhaustedMsg)
    /\ call[2].pc \notin {"idle", "done", "rejected"}

-----------------------------------------------------------------------------
(* Properties of the request handed to the transport (checked under
   SpecVerbs) *)

\* C11 (as claimed): whatever the trailing slash of baseUrl and the leading
\* slash of path, the URL handed to the transport joins the two with exactly
\* one slash: every combination of 'https://x' or 'https://x/' with '/y' or
\* 'y' gives 'https://x/y'.
C11_OneSeparatingSlash ==
    \A c \in Calls :
        call[c].pc = "fetching" => call[c].sent.url = "https://x/y"

\* C12: the header map handed to the transport is the builder's output for
\* the token used when a builder is configured, otherwise the single header
\* Authorization = 'Bearer <accessToken>', with the headers sendRequest was
\* given merged on top: the keys are those of both sides, and a key of the
\* caller's carries the caller's value.
C12_CallerHeadersMergedOnTop ==
    \A c \in Calls :
        call[c].pc = "fetching"
        => LET tk   == call[c].sent.token
               auth == IF options.builder THEN Builder(tk)
                       ELSE [Authorization |-> "Bearer " \o tk.accessToken]
               own  == Spread(Field(call[c].init, "headers"))
               hs   == call[c].sent.headers
           IN  /\ DOMAIN hs = (DOMAIN auth) \cup (DOMAIN own)
               /\ \A k \in DOMAIN hs :
                     hs[k] = IF k \in DOMAIN own THEN own[k] ELSE auth[k]
               /\ options.builder
                    => ("Authorization" \in DOMAIN hs
                          <=> "Authorization" \in DOMAIN own)

\* a caller's apikey header replaced the builder's, and a caller's X-Trace
\* header would be sent next to the default one
C12_Witness ==
    /\ call[1].pc = "fetching"
    /\ call[1].via = Null
    /\ options.builder
    /\ call[1].init.headers = [apikey |-> "caller"]
    /\ call[1].sent.headers = [apikey |-> "caller"]

\* the JSON text of the bodies the callers pass
JsonText(body) ==
    CASE body = [obj |-> << <<"a", [num |-> 1]>> >>] -> "{\"a\":1}"
      [] body = [str |-> "s"] -> "\"s\""
      [] body = Null -> "null"
      [] OTHER -> "{\"a\":{\"b\":\"s\"},\"c\":[1,null]}"

\* C13: a request made through post, put or patch with a body value carries
\* the JSON text of that value as its body, the helper's method, and
\* Content-Type: application/json unless the caller's headers supply
\* Content-Type, in which case it carries the caller's value.
C13_JsonBodyAndContentType ==
    \A c \in Calls :
        ( /\ call[c].pc = "fetching"
          /\ call[c].via # Null
          /\ call[c].via.verb \in {"post", "put", "patch"}
          /\ call[c].via.body # Undefined )
        => LET given == Spread(Field(call[c].via.init, "headers"))
           IN  /\ call[c].sent.body = Text(JsonText(call[c].via.body))
               /\ call[c].sent.method
                    = CASE call[c].via.verb = "post" -> "POST"
                        [] call[c].via.verb = "put" -> "PUT"
                        [] OTHER -> "PATCH"
               /\ call[c].sent.headers["Content-Type"]
                    = IF "Content-Type" \in DOMAIN given
                      THEN given["Content-Type"] ELSE "application/json"

\* post(path, {a:1}) sent {"a":1} as JSON, and a post whose caller set
\* Content-Type: text/plain would send text/plain
C13_Witness ==
    /\ call[1].pc = "fetching"
    /\ call[1].via # Null
    /\ call[1].via.verb = "post"
    /\ call[1].via.body = [obj |-> << <<"a", [num |-> 1]>> >>]
    /\ call[1].via.init = [headers |-> [k \in {"Content-Type"} |-> "text/plain"]]
    /\ call[1].sent.body = Text("{\"a\":1}")
    /\ call[1].sent.headers["Content-Type"] = "text/plain"

\* the method each verb helper stands for
VerbMethod ==
    [ get |-> "GET", post |-> "POST", put |-> "PUT", patch |-> "PATCH",
      delete |-> "DELETE" ]

\* C31: a call made through a verb helper went through sendRequest's loop
\* like any other call (it checked the cache, and having found it absent
\* it invoked the helper once and checked again before dispatching), and
\* its request carries the helper's own method whatever method the
\* caller's options hold.
C31_VerbFixesMethod ==
    \A c \in Calls :
        (call[c].via # Null /\ call[c].pc # "idle") =>
            /\ call[c].checks >= 1
            /\ call[c].entry = "absent" => call[c].getTokenCalls = 1
            /\ call[c].pc = "fetching" =>
                 /\ call[c].sent.method = VerbMethod[call[c].via.verb]
                 /\ call[c].seen = "fresh"
                 /\ call[c].checks = call[c].getTokenCalls + 1
                 /\ call[c].fetchCalls = 1
                 /\ call[c].sent.token = token

\* delete was called with options that ask for TRACE: the request went out
\* as DELETE, after one refresh
C31_Witness ==
    /\ call[1].pc = "fetching"
    /\ call[1].via # Null
    /\ call[1].via.verb = "delete"
    /\ call[1].via.init = [method |-> "TRACE", body |-> Text("raw")]
    /\ call[1].sent.method = "DELETE"
    /\ call[1].getTokenCalls = 1

\* C32: post, put and patch called with body undefined hand the caller's
\* options on unchanged but for the method and the default content type:
\* the body of the request is the body of the caller's options, and its
\* headers are the caller's over the JSON content type and the
\* authorization headers.
C32_RawOptionsPassThrough ==
    \A c \in Calls :
        ( /\ call[c].via # Null
          /\ call[c].via.verb \in {"post", "put", "patch"}
          /\ call[c].via.body = Undefined
          /\ call[c].pc = "fetching" )
        => /\ call[c].sent.method = VerbMethod[call[c].via.verb]
           /\ call[c].sent.body = Field(call[c].via.init, "body")
           /\ \A k \in DOMAIN Spread(Field(call[c].via.init, "headers")) :
                call[c].sent.headers[k] = call[c].via.init.headers[k]

-----------------------------------------------------------------------------
(* Properties of the chained resolver (checked under SpecChain) *)

ChainOrder ==
    << "WorkloadIdentityCredential", "ManagedIdentityCredential",
       "ServicePrincipalCredential", "AzureCliCredential" >>

IsFailure(a) == "error" \in DOMAIN a

\* C7: the strategies invoked in a getToken call are the first n of the
\* chain, each once; all but the last have failed; once one has answered
\* with a token, that token is the result and nothing after it has been
\* constructed or invoked.
C7_FirstSuccessWins ==
    LET n == Len(chain.invoked)
    IN  /\ n <= 4
        /\ chain.invoked = SubSeq(ChainOrder, 1, n)
        /\ chain.constructed = chain.invoked
        /\ Len(chain.answers) \in {n - 1, n}
        /\ \A j \in 1..Len(chain.answers) :
              /\ chain.answers[j].name = ChainOrder[j]
              /\ j < n => IsFailure(chain.answers[j])
        /\ chain.pc = "awaiting" => Len(chain.answers) = n - 1
        /\ chain.pc = "returned"
              => /\ Len(chain.answers) = n
                 /\ ~IsFailure(chain.answers[n])
                 /\ chain.result = chain.answers[n].token

\* strategies 1 and 2 failed, 3 answered: its token is returned and the
\* fourth was never invoked
C7_Witness ==
    /\ chain.pc = "returned"
    /\ chain.invoked = SubSeq(ChainOrder, 1, 3)
    /\ chain.result = chain.answers[3].token

\* C8: when all four strategies fail, getToken fails with one error whose
\* message lists, one line each and in chain order, every strategy's name
\* with that strategy's own failure message.
C8_AggregateListsAll ==
    chain.pc = "failed"
    => /\ chain.result.kind = "error"
       /\ Len(chain.answers) = 4
       /\ Len(chain.result.message) = 5
       /\ \A j \in 1..4 :
             /\ IsFailure(chain.answers[j])
             /\ chain.answers[j].name = ChainOrder[j]
             /\ chain.result.message[j + 1]
                  = "[" \o ChainOrder[j] \o "] " \o chain.answers[j].error

C8_Witness ==
    /\ chain.pc = "failed"
    /\ chain.result.message[2]
         = "[WorkloadIdentityCredential] WorkloadIdentityCredential: Federated token file not found at /f"
    /\ chain.result.message[5]
         = "[AzureCliCredential] Failed to get token: Please login to Azure CLI"

\* C9: every getToken call starts at the first strategy of the chain and,
\* after each failure, goes to the next one in the fixed order, whatever
\* failed or succeeded in earlier calls.
C9_EveryCallFromTheTop ==
    [][ /\ chain'.calls = chain.calls + 1
           => /\ chain'.invoked = << ChainOrder[1] >>
              /\ chain'.errors = << >>
        /\ (chain'.calls = chain.calls
            /\ Len(chain'.invoked) = Len(chain.invoked) + 1)
           => /\ IsFailure(chain'.answers[Len(chain.invoked)])
              /\ chain'.invoked
                   = Append(chain.invoked, ChainOrder[Len(chain.invoked) + 1])
        /\ Len(chain'.invoked) \in {1, Len(chain.invoked), Len(chain.invoked) + 1}
      ]_vars

\* in a second call, after the first strategy failed and a later one
\* answered in the first call, the first strategy is being tried again
C9_Witness ==
    /\ chain.calls = 2
    /\ chain.pc = "awaiting"
    /\ chain.invoked = << "WorkloadIdentityCredential" >>
    /\ "WorkloadIdentityCredential" \in chain.failedBefore
    /\ chain.succeededBefore # {}

\* C22: what a getToken call on the resolver does is a function of the
\* strategies' answers alone, the same with ChainedCredential's diagnostic
\* flag on or off and with DefaultChainedCredential: the strategies are
\* invoked in chain order, one more than have answered while one is
\* awaited; the call returns the token of the first strategy that did not
\* fail, or fails after the last with the aggregate message made of every
\* strategy's own message.  Only the diagnostic log differs.
C22_DiagnosticsChangeNothing ==
    LET n == Len(chain.answers)
    IN  /\ chain.invoked = SubSeq(credentialChain, 1, Len(chain.invoked))
        /\ Len(chain.invoked) = IF chain.pc = "awaiting" THEN n + 1 ELSE n
        /\ \A j \in 1..n : chain.answers[j].name = credentialChain[j]
        /\ \A j \in 1..(n - 1) : "error" \in DOMAIN chain.answers[j]
        /\ chain.pc = "awaiting" => \A j \in 1..n : "error" \in DOMAIN chain.answers[j]
        /\ chain.pc = "returned" =>
             /\ "token" \in DOMAIN chain.answers[n]
             /\ chain.result = chain.answers[n].token
        /\ chain.pc = "failed" =>
             /\ n = Len(credentialChain)
             /\ "error" \in DOMAIN chain.answers[n]
             /\ chain.result.message =
                  << "Failed to get token, errors:" >> \o
                  [ j \in 1..n |-> "[" \o credentialChain[j] \o "] "
                                     \o chain.answers[j].error ]
        /\ Len(chain.log) =
             IF chain.impl = "ChainedCredential" /\ chain.debug
             THEN Len(chain.invoked) + n ELSE 0

\* with the diagnostic flag on, all four strategies failed: eight lines
\* were logged and the aggregate error was thrown
C22_Witness ==
    /\ chain.impl = "ChainedCredential"
    /\ chain.debug
    /\ chain.pc = "failed"
    /\ Len(chain.log) = 8
    /\ Len(chain.result.message) = 5

-----------------------------------------------------------------------------
(* Properties of the credential strategies (checked under SpecCred) *)

\* the external calls made so far that are requests to a token endpoint
Requests == {j \in 1..Len(cred.external) : cred.external[j].kind = "fetch"}

\* C17: once getToken has run on a ServicePrincipalCredential whose
\* clientSecret is absent or empty, the call has failed with the
\* missing-secret error and no request has been sent to the token endpoint,
\* whether the instance is federated or not.
C17_MissingSecretFailsBeforeRequest ==
    (cred.sp # Null /\ ~Truthy(cred.sp, "clientSecret"))
        => /\ cred.pc = "failed"
           /\ cred.result = Err("Error", MissingSecretMsg)
           /\ Requests = {}

\* a federated instance built without a secret has rejected its getToken
C17_Witness ==
    /\ cred.strategy = "ServicePrincipalCredential"
    /\ cred.sp # Null
    /\ "clientSecret" \notin DOMAIN cred.sp
    /\ cred.sp.federated
    /\ cred.pc = "failed"
    /\ cred.result.message = MissingSecretMsg

\* the outcome of the file read of a WorkloadIdentityCredential is an error
ReadFailed == cred.last # Null /\ "code" \in DOMAIN cred.last

\* C18: WorkloadIdentityCredential.getToken reads the federated token file
\* before anything else.  A missing file fails with the 'Federated token
\* file not found' error and any other read failure with the generic
\* wrapped error, and no request is sent in either case.  After a
\* successful read a ServicePrincipalCredential does the work: it is
\* federated, its secret is the file content, its tenant id, client id and
\* authority host are those of the instance, the request carries the
\* content as assertion and the caller's scope, and the outcome of getToken
\* is the outcome of that credential, not wrapped again.
C18_ReadsFileThenDelegates ==
    cred.strategy = "WorkloadIdentityCredential" /\ cred.pc \notin {"none", "ready"}
        => /\ cred.external # << >> => cred.external[1].kind = "readFile"
           /\ ReadFailed =>
                /\ cred.pc = "failed"
                /\ Requests = {}
                /\ cred.result.message =
                     IF cred.last.code = "ENOENT"
                     THEN "WorkloadIdentityCredential: Federated token file not found at "
                            \o Template(cred.options, "federatedTokenFile")
                     ELSE "WorkloadIdentityCredential: Failed to get token: "
                            \o cred.last.message
           /\ ~ReadFailed =>
                /\ cred.pc # "wi_read" => cred.sp # Null
                /\ cred.sp # Null =>
                     /\ cred.sp.federated
                     /\ \A f \in {"tenantId", "clientId", "authorityHost"} :
                          /\ f \in DOMAIN cred.sp <=> f \in DOMAIN cred.options
                          /\ f \in DOMAIN cred.sp => cred.sp[f] = cred.options[f]
                     /\ "content" \in DOMAIN cred.last
                          => cred.sp.clientSecret = cred.last.content
                     /\ \A j \in Requests :
                          /\ cred.external[j].body.client_assertion
                               = cred.sp.clientSecret
                          /\ "client_secret" \notin DOMAIN cred.external[j].body
                          /\ cred.external[j].body.scope = cred.scope
                          /\ cred.external[j].url = SPUrl(cred.options)
                     /\ (cred.pc = "returned" /\ "access_token" \in DOMAIN cred.last.data)
                          => cred.result.token = cred.last.data.access_token
                     /\ (cred.pc = "failed" /\ "ok" \in DOMAIN cred.last)
                          => cred.result.message =
                               "Failed to get token: Error: Failed to get token: "
                                 \o cred.last.text \o "\n    at <stack>"
                     /\ (cred.pc = "failed" /\ Requests = {})
                          => cred.result.message = MissingSecretMsg

\* the file was read and the delegate's request was answered with a token
C18_Witness ==
    /\ cred.strategy = "WorkloadIdentityCredential"
    /\ cred.pc = "returned"
    /\ Len(cred.external) = 2
    /\ cred.external[1].kind = "readFile"
    /\ "tenantId" \in DOMAIN cred.options
    /\ cred.external[2].body.client_assertion = "jwt"
    /\ cred.sp.tenantId = "t1"

WellFormed(data) ==
    /\ "access_token" \in DOMAIN data
    /\ cred.strategy = "ManagedIdentityCredential" \/ "expires_in" \in DOMAIN data
    /\ "expires_on" \in DOMAIN data => data.expires_on \in {<<"1", "7">>, <<"7">>}

\* C14: after a well-formed response, getToken of the Service Principal,
\* Workload Identity and Managed Identity strategies returns a Token whose
\* accessToken is the response's access_token, and whose expiresAt is the
\* time of the answer plus expires_in seconds (Service Principal, Workload
\* Identity), or expires_on seconds after the epoch, else one hour after
\* the answer (Managed Identity).
C14_TokenFromResponse ==
    (cred.pc = "returned" /\ WellFormed(cred.last.data)) =>
        /\ "accessToken" \in DOMAIN cred.result
        /\ cred.result.accessToken = cred.last.data.access_token
        /\ cred.result.expiresAt =
             IF cred.strategy = "ManagedIdentityCredential"
             THEN IF "expires_on" \in DOMAIN cred.last.data
                  THEN IF cred.last.data.expires_on = <<"7">>
                       THEN Date(7000) ELSE Date(17000)
                  ELSE Date(cred.last.at + 3600000)
             ELSE Date(cred.last.at + cred.last.data.expires_in * 1000)

\* the environment variables a strategy cannot work without
Required ==
    [ ServicePrincipalCredential |->
        {"AZURE_TENANT_ID", "AZURE_CLIENT_ID", "AZURE_CLIENT_SECRET"},
      WorkloadIdentityCredential |->
        {"AZURE_TENANT_ID", "AZURE_CLIENT_ID", "AZURE_FEDERATED_TOKEN_FILE"},
      ManagedIdentityCredential |-> {} ]

\* C20: fromEnv builds an instance whatever variables are set, and when a
\* variable the strategy requires was not set, the getToken call on that
\* instance has failed without any external call having been made.
C20_MissingVariableFailsFast ==
    (/\ cred.env # Null
     /\ cred.pc \notin {"none", "ready"}
     /\ Required[cred.strategy] \ cred.env.set # {})
        => cred.pc = "failed" /\ cred.external = << >>

\* C25: every request a ServicePrincipalCredential sends (on its own or
\* for a WorkloadIdentityCredential) carries grant_type=client_credentials,
\* client_id and scope, and besides them client_secret alone when the
\* instance is not federated, or client_assertion with the jwt-bearer
\* client_assertion_type alone when it is; never both.
C25_OneParameterSet ==
    cred.strategy \in {"ServicePrincipalCredential", "WorkloadIdentityCredential"}
        => \A j \in Requests :
             LET body == cred.external[j].body
             IN  /\ body.grant_type = "client_credentials"
                 /\ body.scope = cred.scope
                 /\ body.client_id = Template(cred.sp, "clientId")
                 /\ ~("client_secret" \in DOMAIN body
                        /\ "client_assertion" \in DOMAIN body)
                 /\ IF cred.sp.federated
                    THEN /\ DOMAIN body =
                              { "grant_type", "scope", "client_id",
                                "client_assertion", "client_assertion_type" }
                         /\ body.client_assertion = cred.sp.clientSecret
                         /\ body.client_assertion_type =
                              "urn:ietf:params:oauth:client-assertion-type:jwt-bearer"
                    ELSE /\ DOMAIN body =
                              {"grant_type", "scope", "client_id", "client_secret"}
                         /\ body.client_secret = cred.sp.clientSecret

\* a federated ServicePrincipalCredential has its request in flight
C25_Witness ==
    /\ cred.strategy = "ServicePrincipalCredential"
    /\ cred.pc = "sp_fetch"
    /\ cred.sp.federated
    /\ "clientId" \in DOMAIN cred.sp
    /\ cred.external[1].body.client_assertion = "s3cret"

\* C30: in ManagedIdentityCredential.getToken the timer is pending exactly
\* while the fetch is in flight: once getToken has settled, with a token,
\* an HTTP error, another fetch error or the timeout error, the timer is
\* cleared or has fired, and a timer that fired did so while the fetch was
\* in flight, so that fetch gave no response and no error of its own.
C30_TimerScopedToFetch ==
    cred.strategy = "ManagedIdentityCredential" =>
        /\ cred.timer.state = "pending" <=> cred.pc = "mi_fetch"
        /\ cred.pc \in {"returned", "failed"}
             => cred.timer.state \in {"cleared", "fired"}
        /\ cred.timer.state = "fired" =>
             /\ cred.pc \in {"mi_aborted", "failed"}
             /\ cred.last = Null \/ cred.last = Err("AbortError", "This operation was aborted")
        /\ (cred.last # Null /\ cred.last # Err("AbortError", "This operation was aborted"))
             => cred.timer.state = "cleared"

\* the fetch failed on its own after time had passed: the timer is cleared
C30_Witness ==
    /\ cred.strategy = "ManagedIdentityCredential"
    /\ cred.pc = "failed"
    /\ cred.last \in FetchErrors
    /\ cred.timer.state = "cleared"
    /\ now > 0

-----------------------------------------------------------------------------
(* Properties of the Azure CLI strategy (checked under SpecCli) *)

\* stderr of the subprocess that ended last contains 'az login --scope'
ScopeHint ==
    \E j \in 1..(Len(cred.last.stderr) - 1) :
        cred.last.stderr[j] = "az login" /\ cred.last.stderr[j + 1] = " --scope"

\* it contains 'az login', and nowhere 'az login --scope'
BareLogin ==
    /\ \E j \in 1..Len(cred.last.stderr) : cred.last.stderr[j] = "az login"
    /\ ~ScopeHint

\* it matches one of the not-installed patterns
NotInstalled ==
    \/ MatchesNotFound(cred.last.stderr)
    \/ cred.last.stderr # << >> /\ cred.last.stderr[1] = "'az' is not recognized"

\* C15: for the subprocess that ended last, with its stderr: a not-installed
\* pattern makes getToken fail with the 'Azure CLI not found' error, even
\* when stderr also asks to log in; otherwise 'az login' without
\* 'az login --scope' makes it fail with 'Please login to Azure CLI'; and
\* with 'az login --scope' in stderr getToken never fails with the login
\* error.
C15_StderrClassification ==
    cred.last # Null =>
        /\ NotInstalled =>
             /\ cred.pc = "failed"
             /\ cred.result.message
                  = "Failed to get token: Azure CLI not found. Please install"
        /\ (BareLogin /\ ~NotInstalled) =>
             /\ cred.pc = "failed"
             /\ cred.result.message = "Failed to get token: Please login to Azure CLI"
        /\ (ScopeHint /\ cred.pc = "failed") =>
             cred.result.message # "Failed to get token: Please login to Azure CLI"

\* stderr reports both a missing CLI and a login prompt: not-installed wins
C15_Witness ==
    /\ cred.last # Null
    /\ cred.last.stderr = <<"'az' is not recognized", "az login">>
    /\ cred.pc = "failed"
    /\ cred.result.message
         = "Failed to get token: Azure CLI not found. Please install"

\* C16: when getToken has parsed the CLI's output: if expires_on parses to
\* a number n, expiresAt is n * 1000 ms after the epoch whatever expiresOn
\* says ("17" gives 17000 ms); if expires_on is absent or does not parse,
\* expiresAt is the date parsed from expiresOn.
C16_NumericExpiryElseDateString ==
    cred.pc = "returned" =>
        LET json == cred.last.stdout.json
            n == IF "expires_on" \in DOMAIN json
                 THEN ParseInt(json.expires_on) ELSE NaN
            fallback == IF "expiresOn" \in DOMAIN json
                        THEN ParseDate(json.expiresOn) ELSE InvalidDate
        IN  /\ cred.result.expiresAt =
                 IF IsNaN(n) THEN fallback ELSE Date(n.num * 1000)
            /\ ("expires_on" \in DOMAIN json /\ json.expires_on = <<"1", "7">>)
                 => cred.result.expiresAt = Date(17000)
            /\ ("expires_on" \in DOMAIN json
                  /\ json.expires_on \in {<< >>, <<"x">>, <<"x", "1">>, <<" ">>})
                 => cred.result.expiresAt = fallback
            /\ ("expires_on" \notin DOMAIN json /\ "expiresOn" \in DOMAIN json
                  /\ json.expiresOn = "1970-01-01T00:33:20Z")
                 => cred.result.expiresAt = Date(2000000)

\* both fields are there and disagree: the numeric one is used
C16_Witness ==
    /\ cred.pc = "returned"
    /\ "expires_on" \in DOMAIN cred.last.stdout.json
    /\ "expiresOn" \in DOMAIN cred.last.stdout.json
    /\ cred.last.stdout.json.expires_on = <<"1", "7">>
    /\ cred.last.stdout.json.expiresOn = "1970-01-01T00:33:20Z"
    /\ cred.result.expiresAt = Date(17000)

\* C23: whatever getToken returns is a Token with an accessToken that is
\* there and not empty, and an expiresAt that is a valid date.
C23_WellFormedTokenOrFailure ==
    cred.pc = "returned" =>
        /\ "accessToken" \in DOMAIN cred.result
        /\ cred.result.accessToken # ""
        /\ "expiresAt" \in DOMAIN cred.result
        /\ cred.result.expiresAt # InvalidDate

\* none of the four things that make the tenant query fail was found
QuerySucceeded ==
    [isNotInstallError |-> FALSE, isLoginError |-> FALSE,
     error |-> FALSE, empty |-> FALSE]

=============================================================================
